---- MODULE Spec2Model ----
(* Model of models.py: the ResearchModels constructor (metric selection,   *)
(* checkpoint load or name dispatch to an architecture builder, compile)    *)
(* and the recurrent state of the network it returns.                       *)
EXTENDS Integers, Sequences, FiniteSets, TLC

(* ---------------------------------------------------------------- bounds *)
MaxClasses == 11
MaxSeqLength == 16
MaxCalls == 3
MaxFrame == 2

(* ------------------------------------------------------ program constants *)
TopKThreshold == 10
DefaultFeaturesLength == 2048

None == "None"

\* Names a caller may pass as `model`: the five of the dispatch, the
\* docstring's spelling "lcrn", and a name that is nowhere in the file.
ModelNames ==
    {"lstm", "lrcn", "mlp", "conv_3d", "stateful_lrcn", "lcrn", "not_a_model"}

\* The names the elif chain of __init__ compares `model` with.
DispatchNames == {"lstm", "lrcn", "mlp", "conv_3d", "stateful_lrcn"}

\* The names the constructor's docstring lists as the values of `model`.
DocstringNames == {"lstm", "lcrn", "mlp", "conv_3d"}

\* The builder methods class ResearchModels defines.
Methods == {"lrcn", "conv_3d", "stateful_lrcn"}

(* ------------------------------------------------------------- networks *)
\* A layer: its kind, its name (explicit, or the framework's automatic
\* <kind>_<n>), its output width, whether it carries state across calls, and
\* where its weights come from ("none" for a layer without weights).
Layer(kind, name, units, stateful, weights) ==
    [kind |-> kind, name |-> name, units |-> units, stateful |-> stateful,
     weights |-> weights]

\* No optimizer object is attached.
NoOptimizer == [name |-> None, decay |-> None, state |-> None]

\* A network before compile: loss, optimizer and metrics are not set.
Uncompiled(layers) ==
    [layers |-> layers, loss |-> None, optimizer |-> NoOptimizer,
     metrics |-> << >>]

NoModel == Uncompiled(<< >>)

\* lrcn(): ten TimeDistributed Conv2D in five blocks, each block followed by
\* a pooling, then Flatten, Dropout, LSTM(256), Dense(nb_classes).
lrcn(nb) ==
    Uncompiled(<<
        Layer("Conv2D", "time_distributed_1", 32, FALSE, "init"),
        Layer("Conv2D", "time_distributed_2", 32, FALSE, "init"),
        Layer("MaxPooling2D", "time_distributed_3", 0, FALSE, "none"),
        Layer("Conv2D", "time_distributed_4", 64, FALSE, "init"),
        Layer("Conv2D", "time_distributed_5", 64, FALSE, "init"),
        Layer("MaxPooling2D", "time_distributed_6", 0, FALSE, "none"),
        Layer("Conv2D", "time_distributed_7", 128, FALSE, "init"),
        Layer("Conv2D", "time_distributed_8", 128, FALSE, "init"),
        Layer("MaxPooling2D", "time_distributed_9", 0, FALSE, "none"),
        Layer("Conv2D", "time_distributed_10", 256, FALSE, "init"),
        Layer("Conv2D", "time_distributed_11", 256, FALSE, "init"),
        Layer("MaxPooling2D", "time_distributed_12", 0, FALSE, "none"),
        Layer("Conv2D", "time_distributed_13", 512, FALSE, "init"),
        Layer("Conv2D", "time_distributed_14", 512, FALSE, "init"),
        Layer("MaxPooling2D", "time_distributed_15", 0, FALSE, "none"),
        Layer("Flatten", "time_distributed_16", 0, FALSE, "none"),
        Layer("Dropout", "dropout_1", 0, FALSE, "none"),
        Layer("LSTM", "lstm_1", 256, FALSE, "init"),
        Layer("Dense", "dense_1", nb, FALSE, "init") >>)

\* The layers conv_3d() adds, before it loads the pretrained weights.
Conv3dLayers(nb) ==
    << Layer("Conv3D", "conv1", 64, FALSE, "init"),
       Layer("MaxPooling3D", "pool1", 0, FALSE, "none"),
       Layer("Conv3D", "conv2", 128, FALSE, "init"),
       Layer("MaxPooling3D", "pool2", 0, FALSE, "none"),
       Layer("Conv3D", "conv3a", 256, FALSE, "init"),
       Layer("Conv3D", "conv3b", 256, FALSE, "init"),
       Layer("MaxPooling3D", "pool3", 0, FALSE, "none"),
       Layer("Conv3D", "conv4a", 512, FALSE, "init"),
       Layer("Conv3D", "conv4b", 512, FALSE, "init"),
       Layer("MaxPooling3D", "pool4", 0, FALSE, "none"),
       Layer("Conv3D", "conv5a", 512, FALSE, "init"),
       Layer("Conv3D", "conv5b", 512, FALSE, "init"),
       Layer("ZeroPadding3D", "zero_padding3d_1", 0, FALSE, "none"),
       Layer("MaxPooling3D", "pool5", 0, FALSE, "none"),
       Layer("Flatten", "flatten_1", 0, FALSE, "none"),
       Layer("Dense", "fc6", 4096, FALSE, "init"),
       Layer("Dropout", "dropout_1", 0, FALSE, "none"),
       Layer("Dense", "fc7", 4096, FALSE, "init"),
       Layer("Dropout", "dropout_2", 0, FALSE, "none"),
       Layer("Dense", "dense_1", nb, FALSE, "init") >>

\* The temporal pooling of conv_3d(): (pool size, stride) along the frame
\* axis of pool1 .. pool5, all with border_mode 'valid'.
TemporalPools == << <<1, 1>>, <<2, 2>>, <<2, 2>>, <<2, 2>>, <<2, 2>> >>

\* Frames left after pools i .. 5 on n frames; 0 when a pooling window does
\* not fit, which the framework refuses while it builds the graph.
RECURSIVE FramesAfter(_, _)
FramesAfter(n, i) ==
    IF i > Len(TemporalPools) THEN n
    ELSE IF n < TemporalPools[i][1] THEN 0
    ELSE FramesAfter(((n - TemporalPools[i][1]) \div TemporalPools[i][2]) + 1,
                     i + 1)

\* conv_3d() can be built on input_shape (seq_length, 112, 112, 3).
Conv3dShapeFits(sl) == FramesAfter(sl, 1) >= 1

\* Layer names a pretrained-weights file may hold: names of conv_3d()'s
\* layers, the automatic name of its last layer, and names of no layer.
WeightNames == {"conv1", "fc6", "fc7", "fc8", "dense_1", "conv9"}

\* model.load_weights(path, by_name=False): the file's entries are given to
\* the layers in order, whatever their names.
LoadWeightsInOrder(layers, names) ==
    [i \in 1..Len(layers) |->
        IF layers[i].weights # "none" /\ names # {}
        THEN [layers[i] EXCEPT !.weights = "file"]
        ELSE layers[i]]

\* model.load_weights(path, by_name=True): a layer with weights whose name is
\* in the file takes the file's weights; every other layer is left alone and
\* every other entry of the file is skipped.
LoadWeightsByName(layers, names) ==
    [i \in 1..Len(layers) |->
        IF layers[i].weights # "none" /\ layers[i].name \in names
        THEN [layers[i] EXCEPT !.weights = "file"]
        ELSE layers[i]]

\* An LSTM left at the framework's default, which keeps no state.
NotStateful == FALSE

\* LSTM(256, batch_input_shape=(1, 1, -1), stateful=True, dropout=0.9)
StatefulFlag == TRUE

\* stateful_lrcn(): VGG16 without its top, Flatten, Reshape to a sequence of
\* length 1, a stateful LSTM(256), Dense(nb_classes).
stateful_lrcn(nb) ==
    Uncompiled(<<
        Layer("VGG16", "vgg16", 512, FALSE, "imagenet"),
        Layer("Flatten", "flatten_1", 0, FALSE, "none"),
        Layer("Reshape", "reshape_1", 0, FALSE, "none"),
        Layer("LSTM", "lstm_1", 256, StatefulFlag, "init"),
        Layer("Dense", "dense_1", nb, FALSE, "init") >>)

(* ---------------------------------------------------------- checkpoints *)
\* Adam(decay=1e-6), a new optimizer object without training state.
Adam == [name |-> "Adam", decay |-> "1e-6", state |-> "new"]

\* What load_model finds at each path a caller may pass as saved_model: a
\* network saved with its training configuration, a network saved without
\* one, or (at a path outside ReadablePaths) no readable file.
ReadablePaths == {"trained.hdf5", "bare.hdf5"}

CheckpointPaths == ReadablePaths \cup {"absent.hdf5"}

Checkpoints ==
    [p \in CheckpointPaths |->
        CASE p = "trained.hdf5" ->
               [layers |-> << Layer("Flatten", "flatten_1", 0, FALSE, "none"),
                              Layer("Dense", "dense_1", 512, FALSE, "checkpoint"),
                              Layer("Dense", "dense_2", 5, FALSE, "checkpoint") >>,
                loss |-> "categorical_crossentropy",
                optimizer |-> [name |-> "Adam", decay |-> "1e-6",
                               state |-> "restored"],
                metrics |-> <<"accuracy">>]
          [] p = "bare.hdf5" ->
               Uncompiled(<< Layer("Flatten", "flatten_1", 0, FALSE, "none"),
                             Layer("Dense", "dense_1", 3, FALSE, "checkpoint") >>)
          [] OTHER -> NoModel]

SavedModels == {None} \cup CheckpointPaths

(* ------------------------------------------------------------------ state *)
VARIABLES
    pc,               \* where the constructor is; "done" once it has returned
    nb_classes,       \* self.nb_classes
    model,            \* the argument `model`
    seq_length,       \* self.seq_length
    saved_model,      \* self.saved_model
    features_length,  \* the argument features_length
    metrics,          \* the local list `metrics`
    input_shape,      \* self.input_shape
    self_model,       \* self.model
    built,            \* the builder methods that have executed
    compiles,         \* how many times compile has been called
    error,            \* the exception that ended the constructor, if any
    weightsFile,      \* layer names in the pretrained-weights file read
    states,           \* frames the recurrent layer's state has absorbed
    log               \* the calls made on the returned network, in order

vars == << pc, nb_classes, model, seq_length, saved_model, features_length,
           metrics, input_shape, self_model, built, compiles, error,
           weightsFile, states, log >>

args == << nb_classes, model, seq_length, saved_model, features_length >>

calls == << states, log >>

Init ==
    /\ pc = "idle"
    /\ nb_classes = 0
    /\ model = None
    /\ seq_length = 0
    /\ saved_model = None
    /\ features_length = 0
    /\ metrics = << >>
    /\ input_shape = << >>
    /\ self_model = NoModel
    /\ built = {}
    /\ compiles = 0
    /\ error = None
    /\ weightsFile = {}
    /\ states = << >>
    /\ log = << >>

(* ------------------------------------------------------------ constructor *)
\* __init__, "Set defaults": the arguments are stored.
Construct(nb, m, sl, sm) ==
    /\ pc = "idle"
    /\ nb_classes' = nb
    /\ model' = m
    /\ seq_length' = sl
    /\ saved_model' = sm
    /\ features_length' = DefaultFeaturesLength
    /\ pc' = "metrics"
    /\ UNCHANGED << metrics, input_shape, self_model, built, compiles, error,
                    weightsFile, calls >>

\* A metric list that adds top-k only above the threshold.
MetricsAbove(nb) ==
    IF nb > TopKThreshold
    THEN <<"accuracy", "top_k_categorical_accuracy">>
    ELSE <<"accuracy">>

\* "Set the metrics. Only use top k if there's a need."
MetricsFor(nb) ==
    IF nb >= TopKThreshold
    THEN <<"accuracy", "top_k_categorical_accuracy">>
    ELSE <<"accuracy">>

SetMetrics ==
    /\ pc = "metrics"
    /\ metrics' = MetricsFor(nb_classes)
    /\ pc' = "dispatch"
    /\ UNCHANGED << args, input_shape, self_model, built, compiles, error,
                    weightsFile, calls >>

\* A dispatch that looks at the name before the checkpoint path.
BranchNameFirst(sm, m) ==
    IF m \in DispatchNames THEN m
    ELSE IF sm # None THEN "load"
    ELSE "exit"

\* A dispatch whose else branch falls back to a default architecture.
BranchWithDefault(sm, m) ==
    IF sm # None THEN "load"
    ELSE IF m \in DispatchNames THEN m
    ELSE "lrcn"

\* "Get the appropriate model": the branch the if/elif chain takes.
Branch(sm, m) ==
    IF sm # None THEN "load"
    ELSE IF m = "lstm" THEN "lstm"
    ELSE IF m = "lrcn" THEN "lrcn"
    ELSE IF m = "mlp" THEN "mlp"
    ELSE IF m = "conv_3d" THEN "conv_3d"
    ELSE IF m = "stateful_lrcn" THEN "stateful_lrcn"
    ELSE "exit"

\* An exception leaves the constructor: nothing is assigned to self.model.
Raise(e) ==
    /\ pc' = "raised"
    /\ error' = e
    /\ UNCHANGED << self_model, compiles >>

\* self.model = load_model(self.saved_model)
LoadSaved ==
    /\ pc = "dispatch"
    /\ Branch(saved_model, model) = "load"
    /\ IF saved_model \notin ReadablePaths
       THEN Raise("OSError")
       ELSE /\ self_model' = Checkpoints[saved_model]
            /\ pc' = "compile"
            /\ UNCHANGED << error, compiles >>
    /\ UNCHANGED << args, metrics, input_shape, built, weightsFile, calls >>

\* elif model == 'lstm': input_shape is set, then self.lstm() is looked up.
BuildLstm ==
    /\ pc = "dispatch"
    /\ Branch(saved_model, model) = "lstm"
    /\ input_shape' = << seq_length, features_length >>
    /\ IF "lstm" \in Methods
       THEN FALSE
       ELSE Raise("AttributeError")
    /\ UNCHANGED << args, metrics, built, weightsFile, calls >>

\* elif model == 'lrcn'
BuildLrcn ==
    /\ pc = "dispatch"
    /\ Branch(saved_model, model) = "lrcn"
    /\ input_shape' = << seq_length, 150, 150, 3 >>
    /\ built' = built \cup {"lrcn"}
    /\ self_model' = lrcn(nb_classes)
    /\ pc' = "compile"
    /\ UNCHANGED << args, metrics, compiles, error, weightsFile, calls >>

\* elif model == 'mlp': input_shape is set, then self.mlp() is looked up.
BuildMlp ==
    /\ pc = "dispatch"
    /\ Branch(saved_model, model) = "mlp"
    /\ input_shape' = << features_length * seq_length >>
    /\ IF "mlp" \in Methods
       THEN FALSE
       ELSE Raise("AttributeError")
    /\ UNCHANGED << args, metrics, built, weightsFile, calls >>

\* conv_3d(): the layers, then load_weights(..., by_name=True).
conv_3d(nb, names) == Uncompiled(LoadWeightsByName(Conv3dLayers(nb), names))

\* elif model == 'conv_3d'
BuildConv3d ==
    /\ pc = "dispatch"
    /\ Branch(saved_model, model) = "conv_3d"
    /\ input_shape' = << seq_length, 112, 112, 3 >>
    /\ built' = built \cup {"conv_3d"}
    /\ IF Conv3dShapeFits(seq_length)
       THEN \E names \in SUBSET WeightNames :
               /\ weightsFile' = names
               /\ self_model' = conv_3d(nb_classes, names)
               /\ pc' = "compile"
               /\ UNCHANGED << error, compiles >>
       ELSE /\ Raise("ValueError")
            /\ UNCHANGED weightsFile
    /\ UNCHANGED << args, metrics, calls >>

\* elif model == 'stateful_lrcn'
BuildStatefulLrcn ==
    /\ pc = "dispatch"
    /\ Branch(saved_model, model) = "stateful_lrcn"
    /\ input_shape' = << 150, 150, 3 >>
    /\ built' = built \cup {"stateful_lrcn"}
    /\ self_model' = stateful_lrcn(nb_classes)
    /\ pc' = "compile"
    /\ UNCHANGED << args, metrics, compiles, error, weightsFile, calls >>

\* else: print("Unknown network."); sys.exit()
UnknownNetwork ==
    /\ pc = "dispatch"
    /\ Branch(saved_model, model) = "exit"
    /\ pc' = "exit"
    /\ UNCHANGED << args, metrics, input_shape, self_model, built, compiles,
                    error, weightsFile, calls >>

\* A compile that also starts the network's weights afresh.
CompileAndReinitialise(net, mets) ==
    [layers |-> [i \in 1..Len(net.layers) |->
                    IF net.layers[i].weights = "none" THEN net.layers[i]
                    ELSE [net.layers[i] EXCEPT !.weights = "init"]],
     loss |-> "categorical_crossentropy", optimizer |-> Adam, metrics |-> mets]

\* A compile that keeps a restored training configuration.
CompileUnlessCompiled(net, mets) ==
    IF net.optimizer # NoOptimizer THEN net
    ELSE [net EXCEPT !.loss = "categorical_crossentropy", !.optimizer = Adam,
                     !.metrics = mets]

\* self.model.compile(loss='categorical_crossentropy', optimizer=optimizer,
\*                    metrics=metrics)
CompileNet(net, mets) ==
    [net EXCEPT !.loss = "categorical_crossentropy", !.optimizer = Adam,
                !.metrics = mets]

\* "Now compile the network", then the summary is printed and __init__ returns.
Compile ==
    /\ pc = "compile"
    /\ self_model' = CompileNet(self_model, metrics)
    /\ compiles' = compiles + 1
    /\ pc' = "done"
    /\ UNCHANGED << args, metrics, input_shape, built, error, weightsFile,
                    calls >>

(* ------------------------------------------------- the returned network *)
HasRecurrent(net) == \E i \in 1..Len(net.layers) : net.layers[i].kind = "LSTM"

IsStateful(net) ==
    \E i \in 1..Len(net.layers) :
        net.layers[i].kind = "LSTM" /\ net.layers[i].stateful

Frames == 1..MaxFrame

\* A forward pass on frame x: the result is determined by the frames the
\* recurrent state has absorbed and by x. A stateful layer keeps the state the
\* pass leaves; any other starts every pass from the initial state.
Predict(x) ==
    /\ pc = "done"
    /\ HasRecurrent(self_model)
    /\ Len(log) < MaxCalls
    /\ log' = Append(log, [op |-> "frame", frame |-> x,
                           result |-> Append(states, x)])
    /\ states' = IF IsStateful(self_model) THEN Append(states, x) ELSE << >>
    /\ UNCHANGED << pc, args, metrics, input_shape, self_model, built,
                    compiles, error, weightsFile >>

\* The caller's reset_states(): the recurrent state is the initial one again.
ResetStates ==
    /\ pc = "done"
    /\ HasRecurrent(self_model)
    /\ Len(log) < MaxCalls
    /\ log' = Append(log, [op |-> "reset", frame |-> 0, result |-> << >>])
    /\ states' = << >>
    /\ UNCHANGED << pc, args, metrics, input_shape, self_model, built,
                    compiles, error, weightsFile >>

Next ==
    \/ \E nb \in 2..MaxClasses, m \in ModelNames, sl \in 1..MaxSeqLength,
          sm \in SavedModels : Construct(nb, m, sl, sm)
    \/ SetMetrics
    \/ LoadSaved
    \/ BuildLstm
    \/ BuildLrcn
    \/ BuildMlp
    \/ BuildConv3d
    \/ BuildStatefulLrcn
    \/ UnknownNetwork
    \/ Compile
    \/ \E x \in Frames : Predict(x)
    \/ ResetStates

Spec == Init /\ [][Next]_vars

(* ----------------------------------------------------------------- claims *)
\* The constructor is past the dispatch: it returned, exited or raised, or
\* is about to compile.
Dispatched == pc \in {"compile", "done", "exit", "raised"}

\* The constructor holds a network: the dispatch assigned self.model.
Assigned == pc \in {"compile", "done"}

LayerNames(layers) == [i \in 1..Len(layers) |-> layers[i].name]

Range(seq) == {seq[i] : i \in 1..Len(seq)}

\* C1: for each of the five architecture names, with no checkpoint path,
\* nb_classes >= 2 and seq_length >= 1, the constructor reaches compile and
\* returns, and the last layer of the network has nb_classes outputs.
C1_FiveArchitecturesConstruct ==
    (Dispatched /\ saved_model = None /\ model \in DispatchNames)
        => /\ Assigned
           /\ self_model.layers # << >>
           /\ self_model.layers[Len(self_model.layers)].units = nb_classes

\* C2: with a checkpoint path no builder executes and the unknown-name exit
\* is never taken, whatever the model name; with a readable checkpoint the
\* constructor does not fail and the network is the one of the checkpoint.
C2_CheckpointIgnoresName ==
    saved_model # None
        => /\ built = {}
           /\ pc # "exit"
           /\ saved_model \in ReadablePaths
                => /\ pc # "raised"
                   /\ Assigned
                        => self_model.layers = Checkpoints[saved_model].layers

C2_Witness ==
    /\ pc = "done"
    /\ saved_model = "trained.hdf5"
    /\ model = "not_a_model"
    /\ self_model.layers = Checkpoints["trained.hdf5"].layers

\* C3: with no checkpoint path and a name the dispatch does not know, the
\* step after the dispatch is the process exit: no builder has run, no
\* network is assigned and compile has not been called.
C3_UnknownNameExits ==
    (Dispatched /\ saved_model = None /\ model \notin DispatchNames)
        => /\ pc = "exit"
           /\ built = {}
           /\ self_model = NoModel
           /\ compiles = 0

C3_Witness == pc = "exit" /\ model = "not_a_model" /\ saved_model = None

\* C4: the metrics are {accuracy} below ten classes and {accuracy,
\* top_k_categorical_accuracy} from ten classes on, whatever the model name,
\* and these are the metrics compile receives.
C4_MetricsByClassCount ==
    /\ pc \notin {"idle", "metrics"}
         => /\ nb_classes < 10
                => Range(metrics) = {"accuracy"} /\ Len(metrics) = 1
            /\ nb_classes >= 10
                => /\ Range(metrics) =
                        {"accuracy", "top_k_categorical_accuracy"}
                   /\ Len(metrics) = 2
    /\ pc = "done" => self_model.metrics = metrics

C4_Witness ==
    /\ pc = "done"
    /\ nb_classes = 10
    /\ model = "conv_3d"
    /\ saved_model = None
    /\ Len(self_model.metrics) = 2

\* C5 as stated: once loaded, the network restored from the checkpoint stays
\* exactly as restored until the constructor returns it.
C5_RestoredNetworkUnchanged ==
    (saved_model \in ReadablePaths /\ Assigned)
        => self_model = Checkpoints[saved_model]

\* C5 amended: the layers and weights restored from the checkpoint are
\* returned as restored; compile replaces the loss, the optimizer and the
\* metrics of the restored network and nothing else.
C5_RestoredLayersUnchanged ==
    (saved_model \in ReadablePaths /\ Assigned)
        => /\ self_model.layers = Checkpoints[saved_model].layers
           /\ pc = "compile" => self_model = Checkpoints[saved_model]
           /\ pc = "done"
                => self_model =
                     [Checkpoints[saved_model] EXCEPT
                        !.loss = "categorical_crossentropy",
                        !.optimizer = [name |-> "Adam", decay |-> "1e-6",
                                       state |-> "new"],
                        !.metrics = metrics]

C5_Witness ==
    /\ pc = "done"
    /\ saved_model = "trained.hdf5"
    /\ self_model.optimizer.state = "new"
    /\ Checkpoints[saved_model].optimizer.state = "restored"

\* C7: in conv_3d, loading the pretrained weights by name does not fail
\* whatever names the file holds: a layer with weights has the file's weights
\* exactly when its name is in the file and is at its initial values
\* otherwise, the file adds no layer, and a constructor that raised never
\* got to read the file.
C7_WeightsLoadedByName ==
    (saved_model = None /\ model = "conv_3d" /\ Dispatched)
        => /\ Assigned
             => /\ Len(self_model.layers) = 20
                /\ \A i \in 1..Len(self_model.layers) :
                     LET l == self_model.layers[i] IN
                       /\ l.kind \in {"Conv3D", "Dense"}
                            => /\ l.name \in weightsFile => l.weights = "file"
                               /\ l.name \notin weightsFile
                                    => l.weights = "init"
                       /\ l.kind \notin {"Conv3D", "Dense"}
                            => l.weights = "none"
                /\ "fc8" \notin Range(LayerNames(self_model.layers))
                /\ "conv9" \notin Range(LayerNames(self_model.layers))
           /\ pc = "raised" => weightsFile = {} /\ seq_length < 16
           /\ seq_length >= 16 => Assigned

C7_Witness ==
    /\ pc = "done"
    /\ model = "conv_3d"
    /\ saved_model = None
    /\ weightsFile = {"conv1", "fc6", "fc8", "conv9"}
    /\ self_model.layers[1].weights = "file"
    /\ self_model.layers[18].weights = "init"
    /\ self_model.layers[20].weights = "init"

\* C8: with no checkpoint path, every name the docstring lists for `model`
\* selects a builder and never takes the "Unknown network." exit.
C8_DocstringNamesAccepted ==
    (Dispatched /\ saved_model = None /\ model \in DocstringNames)
        => pc # "exit"

\* compile is called only on an assigned network.
CompiledAfterBuilt ==
    compiles' # compiles
        => /\ pc = "compile"
           /\ self_model.layers # << >>
           /\ compiles' = compiles + 1

\* From the dispatch on, no step changes the layer stack.
LayersFixed == Assigned => self_model'.layers = self_model.layers

\* The network is compiled exactly when the constructor has returned, once,
\* with the loss, the optimizer and the selected metrics.
CompiledOnce ==
    /\ pc = "done"
         => /\ compiles = 1
            /\ self_model.loss = "categorical_crossentropy"
            /\ self_model.optimizer =
                 [name |-> "Adam", decay |-> "1e-6", state |-> "new"]
            /\ self_model.metrics = metrics
    /\ pc # "done" => compiles = 0

\* C9: every construction that returns has compiled the network exactly
\* once, after it was built or loaded, with categorical cross-entropy, a new
\* Adam with decay 1e-6 and the selected metrics, and neither compile nor any
\* later step changes the layer stack.
C9_CompiledOnceAfterBuild ==
    /\ []CompiledOnce
    /\ [][CompiledAfterBuilt]_vars
    /\ [][LayersFixed]_vars

C9_Witness ==
    /\ pc = "done"
    /\ compiles = 1
    /\ "lrcn" \in built
    /\ log # << >>

\* The network in hand was built by stateful_lrcn and has been returned.
StatefulReturned == pc = "done" /\ "stateful_lrcn" \in built

\* Call i of the log starts from the initial recurrent state.
Fresh(i) == i = 1 \/ log[i - 1].op = "reset"

\* The frames passed by the calls from the last reset before call j up
\* to call j.
RECURSIVE FramesSinceReset(_)
FramesSinceReset(j) ==
    IF j = 0 \/ log[j].op = "reset" THEN << >>
    ELSE Append(FramesSinceReset(j - 1), log[j].frame)

\* C6: on the stateful network, a second pass on the same frame without a
\* reset gives another result than the first pass, a second pass after a
\* reset gives the first pass's result again, and every pass's result is
\* determined by all the frames passed since the last reset.
C6_StatePersistsUntilReset ==
    StatefulReturned
        => /\ \A i \in 1..(Len(log) - 1) :
                (/\ Fresh(i)
                 /\ log[i].op = "frame"
                 /\ log[i + 1].op = "frame"
                 /\ log[i + 1].frame = log[i].frame)
                    => log[i + 1].result # log[i].result
           /\ \A i \in 1..(Len(log) - 2) :
                (/\ Fresh(i)
                 /\ log[i].op = "frame"
                 /\ log[i + 1].op = "reset"
                 /\ log[i + 2].op = "frame"
                 /\ log[i + 2].frame = log[i].frame)
                    => log[i + 2].result = log[i].result
           /\ \A j \in 1..Len(log) :
                log[j].op = "frame" => log[j].result = FramesSinceReset(j)

C6_Witness ==
    /\ StatefulReturned
    /\ Len(log) = 2
    /\ log[1].op = "frame"
    /\ log[2].op = "frame"
    /\ log[1].frame = log[2].frame
    /\ log[2].result # log[1].result

\* The recurrent state as the two-state machine names it.
RnnState == IF states = << >> THEN "state-reset" ELSE "accumulating"

\* C10: the stateful network's recurrent state is state-reset after
\* construction and after every reset, accumulating after every frame call,
\* and only a reset takes it from accumulating back to state-reset.
C10_TwoStateMachine ==
    /\ pc # "done" => RnnState = "state-reset"
    /\ StatefulReturned
         => /\ log = << >> => RnnState = "state-reset"
            /\ log # << >>
                 => /\ log[Len(log)].op = "reset" => RnnState = "state-reset"
                    /\ log[Len(log)].op = "frame" => RnnState = "accumulating"

C10_Witness ==
    /\ StatefulReturned
    /\ Len(log) = 3
    /\ log[1].op = "frame"
    /\ log[2].op = "reset"
    /\ log[3].op = "frame"
    /\ RnnState = "accumulating"

====
